---- MODULE Spec2Model ----
(***************************************************************************)
(* Model of iopy: a best-first search for periodic patterns of a           *)
(* cellular automaton.  A read-only transition table of                    *)
(* (top, mid, next, bot) rows is the oracle; query_alt.py builds the       *)
(* per-period extension query on the unpacked table, query.py the same     *)
(* query on the table of packed 64-bit ids, search.py holds the search     *)
(* tree nodes and the result renderer, iopy_alt.py holds the heap frontier *)
(* and the search loop.                                                    *)
(*                                                                         *)
(* Python tuples are 0-based; the sequences here are 1-based, so           *)
(* generation g of a row tuple t is t[g + 1].                              *)
(***************************************************************************)
EXTENDS Integers, Sequences, FiniteSets, Bags, TLC

\* Bounds of the model.
MaxPeriod == 2
MaxTableRows == 3
MaxNodes == 7
MaxQueue == 5
MaxSlices == 3

\* Row values the transition tables and seeds are drawn from.
Rows == {0, 1}
\* Costs the frontier is exercised with on its own.
Costs == {-5, 0, 3}

VARIABLES
    table,      \* the transition table: a set of <<top, mid, next, bot>>
    period,     \* search.period
    nodes,      \* every SearchState constructed so far; nodes[1] is INITIAL_STATE
    queue,      \* search_queue._queue, the heap list of <<cost, node id>>
    pc,         \* position of the main loop
    state,      \* the loop's local `state`: id of the last dequeued node, 0 before
    rows,       \* the list returned by the last connection.execute(...).all()
    result,     \* the SearchResult slices, <<>> while there is none
    printed,    \* characters written to standard output by the FOUND branch
    queried,    \* history: ids of the nodes the query was executed for
    dequeued,   \* history: ids of the nodes dequeued
    bound,      \* the parameter mapping last built by get_query_params_from_rows
    shown       \* the `gen` argument of the last get_pattern_text_at call

vars == <<table, period, nodes, queue, pc, state, rows, result, printed,
          queried, dequeued, bound, shown>>

----------------------------------------------------------------------------
\* Helpers

Gens(P) == 0 .. (P - 1)

RECURSIVE MinOfSeq(_)
MinOfSeq(s) ==
    IF Len(s) = 1 THEN s[1]
    ELSE LET m == MinOfSeq(Tail(s)) IN IF s[1] < m THEN s[1] ELSE m

RECURSIVE SetToSeqs(_)
\* every ordering of a finite set
SetToSeqs(S) ==
    IF S = {} THEN {<<>>}
    ELSE UNION {{<<x>> \o r : r \in SetToSeqs(S \ {x})} : x \in S}

Quads == Rows \X Rows \X Rows \X Rows

----------------------------------------------------------------------------
\* iopy/query_alt.py: the unpacked query

\* The parameter name of generation `gen` and field `tag`; the f-string is
\* injective in (gen, tag), which is all the query relies on.
_get_param_name(gen, tag) == <<gen, tag>>

\* the parameter mapping with next taken from the top rows
get_query_params_next_from_top(top_rows, mid_rows, P) ==
    [n \in Gens(P) \X {"top", "mid", "next"} |->
        LET current_gen == n[1]
            next_gen == (n[1] + 1) % P
        IN  CASE n[2] = "top" -> top_rows[current_gen + 1]
              [] n[2] = "mid" -> mid_rows[current_gen + 1]
              [] n[2] = "next" -> top_rows[next_gen + 1]]

\* The parameter mapping of a state: top, mid and next = mid of the next
\* generation (mod period), for every generation.
get_query_params_from_rows(top_rows, mid_rows, P) ==
    [n \in Gens(P) \X {"top", "mid", "next"} |->
        LET current_gen == n[1]
            next_gen == (n[1] + 1) % P
        IN  CASE n[2] = "top" -> top_rows[current_gen + 1]
              [] n[2] = "mid" -> mid_rows[current_gen + 1]
              [] n[2] = "next" -> mid_rows[next_gen + 1]]

\* SELECT mid, next, bot FROM table WHERE top = :top AND mid = :mid AND next = :next
_get_cte_matching_top_mid_next(tbl, gen, params) ==
    {[mid |-> r[2], next |-> r[3], bot |-> r[4]] :
        r \in {q \in tbl : /\ q[1] = params[_get_param_name(gen, "top")]
                           /\ q[2] = params[_get_param_name(gen, "mid")]
                           /\ q[3] = params[_get_param_name(gen, "next")]}}

\* ext_count with the next generation's bot taken from the current row
ext_count_from_current_row_only(tbl, cte_curr_row, cte_next_row) ==
    Cardinality({q \in tbl : /\ q[1] = cte_curr_row.mid
                             /\ q[2] = cte_curr_row.bot
                             /\ q[3] = cte_curr_row.bot})

\* The scalar subquery ext_count_of_gen_i for one row of the current
\* generation's CTE and one row of the next generation's CTE:
\* SELECT count(*) FROM table WHERE top = curr.mid AND mid = curr.bot AND next = next.bot
ext_count(tbl, cte_curr_row, cte_next_row) ==
    Cardinality({q \in tbl : /\ q[1] = cte_curr_row.mid
                             /\ q[2] = cte_curr_row.bot
                             /\ q[3] = cte_next_row.bot})

RECURSIVE join_ctes(_, _, _)
\* cte_0 JOIN cte_1 ON ext_count_of_gen_0 > 0 ... JOIN cte_k ON ext_count_of_gen_(k-1) > 0:
\* the set of joined rows, each a sequence of one CTE row per generation 0..k.
join_ctes(tbl, bot_cte_of_gen, k) ==
    IF k = 0 THEN {<<r>> : r \in bot_cte_of_gen[1]}
    ELSE UNION {{j \o <<r>> :
                    r \in {c \in bot_cte_of_gen[k + 1] : ext_count(tbl, j[k], c) > 0}} :
                j \in join_ctes(tbl, bot_cte_of_gen, k - 1)}

\* the query without its final WHERE on the wrap-around generation's count
create_query_without_wraparound_filter(P, tbl, params) ==
    LET bot_cte_of_gen ==
            [i \in 1 .. P |-> _get_cte_matching_top_mid_next(tbl, i - 1, params)]
        joined == join_ctes(tbl, bot_cte_of_gen, P - 1)
        count_of(j, i) == ext_count(tbl, j[i + 1], j[((i + 1) % P) + 1])
    IN  {[c \in 1 .. (2 * P) |->
            IF c <= P THEN j[c].bot ELSE count_of(j, c - P - 1)] : j \in joined}

\* The query built for `P` over `tbl`, executed with `params`: the set of
\* output rows, each <<bot_at_gen_0..P-1, ext_count_of_gen_0..P-1>>.
create_query_of_bot_rows_and_children_counts(P, tbl, params) ==
    LET bot_cte_of_gen ==
            [i \in 1 .. P |-> _get_cte_matching_top_mid_next(tbl, i - 1, params)]
        joined == join_ctes(tbl, bot_cte_of_gen, P - 1)
        count_of(j, i) == ext_count(tbl, j[i + 1], j[((i + 1) % P) + 1])
        kept == {j \in joined : count_of(j, P - 1) > 0}
    IN  {[c \in 1 .. (2 * P) |->
            IF c <= P THEN j[c].bot ELSE count_of(j, c - P - 1)] : j \in kept}

----------------------------------------------------------------------------
\* iopy/query.py: the packed query
\*
\* A packed id has 64 bits, more than the 32 bits of an integer here.  A
\* non-negative Python integer is therefore kept as the sequence of its
\* base-2^16 digits, least significant first, without leading zero digits
\* (0 is <<>>); a signed Python integer is [neg, mag] with mag such a
\* sequence; an SQLite INTEGER is the four digits of its 64-bit two's
\* complement pattern, least significant first.

Base == 65536

RECURSIVE Digits(_)
\* the digits of the non-negative integer n
Digits(n) == IF n = 0 THEN <<>> ELSE <<n % Base>> \o Digits(n \div Base)

RECURSIVE Norm(_)
\* drop the leading zero digits
Norm(d) ==
    IF d = <<>> THEN <<>>
    ELSE IF d[Len(d)] = 0 THEN Norm(SubSeq(d, 1, Len(d) - 1)) ELSE d

\* digit i of d, 0 beyond its length
DigitAt(d, i) == IF i <= Len(d) THEN d[i] ELSE 0

RECURSIVE bit_or(_, _)
\* a | b of two non-negative integers
bit_or(a, b) ==
    IF a = 0 THEN b
    ELSE IF b = 0 THEN a
    ELSE (IF a % 2 = 1 \/ b % 2 = 1 THEN 1 ELSE 0) + 2 * bit_or(a \div 2, b \div 2)

RECURSIVE bit_and(_, _)
\* a & b of two non-negative integers
bit_and(a, b) ==
    IF a = 0 \/ b = 0 THEN 0
    ELSE (IF a % 2 = 1 /\ b % 2 = 1 THEN 1 ELSE 0) + 2 * bit_and(a \div 2, b \div 2)

\* x << k of Python, k a multiple of 16
py_lshift(x, k) == IF x = <<>> THEN <<>> ELSE [i \in 1 .. (k \div 16) |-> 0] \o x

\* x | y of Python on non-negative integers
py_or(x, y) ==
    LET n == IF Len(x) > Len(y) THEN Len(x) ELSE Len(y)
    IN  Norm([i \in 1 .. n |-> bit_or(DigitAt(x, i), DigitAt(y, i))])

RECURSIVE digits_lt_from(_, _, _)
digits_lt_from(x, y, i) ==
    IF i = 0 THEN FALSE
    ELSE IF DigitAt(x, i) # DigitAt(y, i) THEN DigitAt(x, i) < DigitAt(y, i)
    ELSE digits_lt_from(x, y, i - 1)

\* x < y of two non-negative integers
digits_lt(x, y) ==
    digits_lt_from(x, y, IF Len(x) > Len(y) THEN Len(x) ELSE Len(y))

RECURSIVE digits_sub_from(_, _, _, _)
digits_sub_from(x, y, i, borrow) ==
    IF i > Len(x) THEN <<>>
    ELSE LET v == x[i] - DigitAt(y, i) - borrow
         IN  IF v < 0 THEN <<v + Base>> \o digits_sub_from(x, y, i + 1, 1)
             ELSE <<v>> \o digits_sub_from(x, y, i + 1, 0)

\* x - y of two non-negative integers with x >= y
digits_sub(x, y) == Norm(digits_sub_from(x, y, 1, 0))

\* x - y of Python on non-negative integers: a signed integer
py_sub(x, y) ==
    IF digits_lt(x, y) THEN [neg |-> TRUE, mag |-> digits_sub(y, x)]
    ELSE [neg |-> FALSE, mag |-> digits_sub(x, y)]

\* 1 << 63 and 1 << 64
TwoTo63 == <<0, 0, 0, 32768>>
TwoTo64 == <<0, 0, 0, 0, 1>>

\* the parameter name of generation `gen`, with the default tag
_get_param_name_packed(gen) == <<gen, "main">>

\* _get_partial_id without the cast to the signed range
_get_partial_id_unsigned(top, mid, next) ==
    LET u64_id == py_or(py_or(py_lshift(Digits(top), 48), py_lshift(Digits(mid), 32)),
                        py_lshift(Digits(next), 16))
    IN  [neg |-> FALSE, mag |-> u64_id]

\* u64_id = (top << 48) | (mid << 32) | (next << 16);
\* i64_id = u64_id - (0 if u64_id < (1 << 63) else (1 << 64))
_get_partial_id(top, mid, next) ==
    LET u64_id == py_or(py_or(py_lshift(Digits(top), 48), py_lshift(Digits(mid), 32)),
                        py_lshift(Digits(next), 16))
    IN  py_sub(u64_id, IF digits_lt(u64_id, TwoTo63) THEN <<>> ELSE TwoTo64)

\* query.get_query_params_from_rows: one partial id per generation
get_query_params_from_rows_packed(top_rows, mid_rows, P) ==
    [n \in {_get_param_name_packed(i) : i \in Gens(P)} |->
        LET current_gen == n[1]
            next_gen == (n[1] + 1) % P
        IN  _get_partial_id(top_rows[current_gen + 1], mid_rows[current_gen + 1],
                            mid_rows[next_gen + 1])]

\* whether a signed Python integer fits an SQLite INTEGER
fits_int64(x) ==
    IF x.neg THEN ~digits_lt(TwoTo63, x.mag) ELSE digits_lt(x.mag, TwoTo63)

\* the SQLite INTEGER a signed Python integer in the 64-bit range is bound
\* or stored as
sqlite_bind(x) ==
    LET u == IF x.neg /\ x.mag # <<>> THEN digits_sub(TwoTo64, x.mag) ELSE x.mag
    IN  [i \in 1 .. 4 |-> DigitAt(u, i)]

\* a literal of the SQL text
sql_int(n) == [i \in 1 .. 4 |-> DigitAt(Digits(n), i)]

\* the digits of an SQLite INTEGER in signed order: the top digit re-based
sql_key(a) == <<IF a[4] >= 32768 THEN a[4] - Base ELSE a[4], a[3], a[2], a[1]>>

RECURSIVE seq_le(_, _)
seq_le(s, t) ==
    IF s = <<>> THEN TRUE
    ELSE IF Head(s) # Head(t) THEN Head(s) < Head(t)
    ELSE seq_le(Tail(s), Tail(t))

\* a <= b of SQLite
sql_le(a, b) == seq_le(sql_key(a), sql_key(b))

\* x BETWEEN lo AND hi
sql_between(x, lo, hi) == sql_le(lo, x) /\ sql_le(x, hi)

\* a >> k of SQLite (arithmetic), k a multiple of 16
sql_rshift(a, k) ==
    LET s == k \div 16
        fill == IF a[4] >= 32768 THEN Base - 1 ELSE 0
    IN  [i \in 1 .. 4 |-> IF i + s <= 4 THEN a[i + s] ELSE fill]

\* a << k of SQLite (bits shifted out of 64 are lost), k a multiple of 16
sql_lshift(a, k) ==
    LET s == k \div 16
    IN  [i \in 1 .. 4 |-> IF i - s >= 1 THEN a[i - s] ELSE 0]

sql_and(a, b) == [i \in 1 .. 4 |-> bit_and(a[i], b[i])]

sql_or(a, b) == [i \in 1 .. 4 |-> bit_or(a[i], b[i])]

RECURSIVE sql_add_from(_, _, _, _)
sql_add_from(a, b, i, carry) ==
    IF i > 4 THEN <<>>
    ELSE LET v == a[i] + b[i] + carry
         IN  <<v % Base>> \o sql_add_from(a, b, i + 1, v \div Base)

\* a + b of SQLite on operands whose sum stays in the 64-bit range
sql_add(a, b) == sql_add_from(a, b, 1, 0)

\* the Python integer fetched for a column that holds a 16-bit value
sql_fetch(a) == a[1]

\* the id a transition is stored under in the packed layout:
\* (top << 48) | (mid << 32) | (next << 16) | bot, in the signed range
packed_id(q) ==
    LET u64_id == py_or(py_or(py_lshift(Digits(q[1]), 48), py_lshift(Digits(q[2]), 32)),
                        py_or(py_lshift(Digits(q[3]), 16), Digits(q[4])))
    IN  sqlite_bind(py_sub(u64_id, IF digits_lt(u64_id, TwoTo63) THEN <<>> ELSE TwoTo64))

\* the packed table holding the transitions of `tbl`
packed_table(tbl) == {packed_id(q) : q \in tbl}

\* SELECT (id >> 32) & 0xFFFF AS mid, (id >> 16) & 0xFFFF AS next,
\*        id & 0xFFFF AS bot
\* FROM table WHERE id BETWEEN :partial_id AND :partial_id + 0xFFFF
_get_cte_matching_top_mid_next_packed(ids, gen, params) ==
    LET id_param == sqlite_bind(params[_get_param_name_packed(gen)])
        id_min == id_param
        id_max == sql_add(id_param, sql_int(65535))
    IN  {[mid |-> sql_and(sql_rshift(id, 32), sql_int(65535)),
          next |-> sql_and(sql_rshift(id, 16), sql_int(65535)),
          bot |-> sql_and(id, sql_int(65535))] :
            id \in {x \in ids : sql_between(x, id_min, id_max)}}

\* ext_count whose id range starts at the row's own (mid, next, bot)
ext_count_packed_own_fields(ids, cte_curr_row, cte_next_row) ==
    LET ext_id_min == sql_or(sql_lshift(cte_curr_row.mid, 48),
                             sql_or(sql_lshift(cte_curr_row.next, 32),
                                    sql_lshift(cte_curr_row.bot, 16)))
        ext_id_max == sql_add(ext_id_min, sql_int(65535))
    IN  Cardinality({x \in ids : sql_between(x, ext_id_min, ext_id_max)})

\* The scalar subquery ext_count_of_gen_i:
\* SELECT count(*) FROM table WHERE id BETWEEN ext_id_min AND ext_id_min + 0xFFFF
\* with ext_id_min = curr.mid << 48 | (curr.bot << 32 | next.bot << 16)
ext_count_packed(ids, cte_curr_row, cte_next_row) ==
    LET ext_id_min == sql_or(sql_lshift(cte_curr_row.mid, 48),
                             sql_or(sql_lshift(cte_curr_row.bot, 32),
                                    sql_lshift(cte_next_row.bot, 16)))
        ext_id_max == sql_add(ext_id_min, sql_int(65535))
    IN  Cardinality({x \in ids : sql_between(x, ext_id_min, ext_id_max)})

RECURSIVE join_ctes_packed(_, _, _)
\* cte_0 JOIN cte_1 ON ext_count_of_gen_0 > 0 ... of the packed query
join_ctes_packed(ids, bot_cte_of_gen, k) ==
    IF k = 0 THEN {<<r>> : r \in bot_cte_of_gen[1]}
    ELSE UNION {{j \o <<r>> :
                    r \in {c \in bot_cte_of_gen[k + 1] :
                              ext_count_packed(ids, j[k], c) > 0}} :
                j \in join_ctes_packed(ids, bot_cte_of_gen, k - 1)}

\* The packed query built for `P` over the ids `ids`, executed with
\* `params`: the set of output rows, each
\* <<bot_at_gen_0..P-1, ext_count_of_gen_0..P-1>>.
create_query_of_bot_rows_and_children_counts_packed(P, ids, params) ==
    LET bot_cte_of_gen ==
            [i \in 1 .. P |-> _get_cte_matching_top_mid_next_packed(ids, i - 1, params)]
        joined == join_ctes_packed(ids, bot_cte_of_gen, P - 1)
        count_of(j, i) == ext_count_packed(ids, j[i + 1], j[((i + 1) % P) + 1])
        kept == {j \in joined : count_of(j, P - 1) > 0}
    IN  {[c \in 1 .. (2 * P) |->
            IF c <= P THEN sql_fetch(j[c].bot) ELSE count_of(j, c - P - 1)] : j \in kept}

----------------------------------------------------------------------------
\* iopy/search.py: SearchState and SearchResult

NoParent == 0

SearchState(parent, top, mid) == [parent |-> parent, top |-> top, mid |-> mid]

\* has_same_rows_as comparing the top rows only
has_same_rows_as_top_only(self, other) == self.top = other.top

\* has_same_rows_as with `or` for `and`
has_same_rows_as_either(self, other) == self.top = other.top \/ self.mid = other.mid

has_same_rows_as(self, other) == self.top = other.top /\ self.mid = other.mid

\* SearchState.__eq__: both are SearchStates here, so top and mid decide.
state_eq(self, other) == self.top = other.top /\ self.mid = other.mid

\* SearchState.__lt__
state_lt(self, other) == TRUE

RECURSIVE ancestors_loop(_, _, _)
ancestors_loop(ns, ancestors, st) ==
    IF st # NoParent
    THEN ancestors_loop(ns, Append(ancestors, st), ns[st].parent)
    ELSE ancestors

\* get_ancestors starting at the parent
get_ancestors_from_parent(ns, self) == ancestors_loop(ns, <<>>, ns[self].parent)

\* the ids of the node `self` and of its ancestors
get_ancestors(ns, self) == ancestors_loop(ns, <<>>, self)

\* get_search_result walking the ancestors without the state itself
get_search_result_without_own_top(ns, self) ==
    LET anc == ancestors_loop(ns, <<>>, ns[self].parent)
    IN  <<ns[self].mid>> \o [i \in 1 .. Len(anc) |-> ns[anc[i]].top]

get_search_result(ns, self) ==
    LET anc == get_ancestors(ns, self)
    IN  <<ns[self].mid>> \o [i \in 1 .. Len(anc) |-> ns[anc[i]].top]

RECURSIVE bin_digits(_)
\* the binary digits of n >= 0, most significant first, "0" for 0
bin_digits(n) ==
    IF n < 2 THEN <<IF n = 1 THEN "1" ELSE "0">>
    ELSE bin_digits(n \div 2) \o <<IF n % 2 = 1 THEN "1" ELSE "0">>

\* the digits zero-padded on the right
format_016b_padded_right(row) ==
    LET d == bin_digits(row)
    IN  IF Len(d) >= 16 THEN d ELSE d \o [i \in 1 .. (16 - Len(d)) |-> "0"]

\* f"{row:016b}": the digits, zero-padded on the left to at least 16
format_016b(row) ==
    LET d == bin_digits(row)
    IN  IF Len(d) >= 16 THEN d ELSE [i \in 1 .. (16 - Len(d)) |-> "0"] \o d

RECURSIVE concat_all(_)
concat_all(ss) == IF ss = <<>> THEN <<>> ELSE Head(ss) \o concat_all(Tail(ss))

\* the text as a sequence of characters
get_pattern_text_at(slices, gen) ==
    concat_all([k \in 1 .. Len(slices) |->
        LET row == slices[k][gen + 1]
            row_binary == format_016b(row)
        IN  [i \in 1 .. Len(row_binary) |->
                IF row_binary[i] = "1" THEN "o" ELSE "."] \o <<"\n">>])

----------------------------------------------------------------------------
\* iopy_alt.py: SearchQueueHeap over heapq, on a list of (cost, state) tuples

\* the tuple comparison with the costs compared the wrong way round
tuple_lt_costs_reversed(ns, a, b) ==
    IF a[1] # b[1] THEN a[1] > b[1]
    ELSE IF a[2] = b[2] \/ state_eq(ns[a[2]], ns[b[2]]) THEN FALSE
    ELSE state_lt(ns[a[2]], ns[b[2]])

\* (cost, state) < (cost, state) as Python compares tuples: the first pair of
\* unequal items decides (== of the costs, then SearchState.__eq__), by <
\* of the costs or SearchState.__lt__; tuples equal item by item are not <.
tuple_lt(ns, a, b) ==
    IF a[1] # b[1] THEN a[1] < b[1]
    ELSE IF a[2] = b[2] \/ state_eq(ns[a[2]], ns[b[2]]) THEN FALSE
    ELSE state_lt(ns[a[2]], ns[b[2]])

RECURSIVE siftdown_loop(_, _, _, _, _)
siftdown_loop(ns, heap, startpos, pos, newitem) ==
    IF pos > startpos
    THEN LET parentpos == (pos - 1) \div 2
             parent == heap[parentpos + 1]
         IN  IF tuple_lt(ns, newitem, parent)
             THEN siftdown_loop(ns, [heap EXCEPT ![pos + 1] = parent],
                                startpos, parentpos, newitem)
             ELSE [heap EXCEPT ![pos + 1] = newitem]
    ELSE [heap EXCEPT ![pos + 1] = newitem]

\* heapq._siftdown: move heap[pos] up towards startpos while it is < its parent
heapq_siftdown(ns, heap, startpos, pos) ==
    siftdown_loop(ns, heap, startpos, pos, heap[pos + 1])

RECURSIVE siftup_loop(_, _, _, _)
\* the loop of heapq._siftup: bubble the smaller child up until a leaf;
\* yields the heap and the leaf position reached
siftup_loop(ns, heap, pos, childpos) ==
    IF childpos < Len(heap)
    THEN LET rightpos == childpos + 1
             c == IF rightpos < Len(heap)
                     /\ ~tuple_lt(ns, heap[childpos + 1], heap[rightpos + 1])
                  THEN rightpos ELSE childpos
         IN  siftup_loop(ns, [heap EXCEPT ![pos + 1] = heap[c + 1]], c, 2 * c + 1)
    ELSE [heap |-> heap, pos |-> pos]

heapq_siftup(ns, heap, pos) ==
    LET newitem == heap[pos + 1]
        l == siftup_loop(ns, heap, pos, 2 * pos + 1)
    IN  heapq_siftdown(ns, [l.heap EXCEPT ![l.pos + 1] = newitem], pos, l.pos)

heappush(ns, heap, item) ==
    heapq_siftdown(ns, Append(heap, item), 0, Len(heap))

\* heapq.heappop on a non-empty heap: the item returned and the heap left
heappop(ns, heap) ==
    LET lastelt == heap[Len(heap)]
        rest == SubSeq(heap, 1, Len(heap) - 1)
    IN  IF rest # <<>>
        THEN [item |-> rest[1],
              heap |-> heapq_siftup(ns, [rest EXCEPT ![1] = lastelt], 0)]
        ELSE [item |-> lastelt, heap |-> rest]

enqueue(ns, q, st, cost) == heappush(ns, q, <<cost, st>>)

\* SearchQueueHeap.dequeue: the state returned and the queue left
dequeue(ns, q) ==
    LET p == heappop(ns, q) IN [state |-> p.item[2], queue |-> p.heap]

\* is_empty without its `not`
is_empty_inverted(q) == q # <<>>

\* is_empty taking a queue of one entry for empty
is_empty_below_two(q) == Len(q) < 2

is_empty(q) == q = <<>>

----------------------------------------------------------------------------
\* iopy_alt.py: Search and the main loop

\* the cost without the negation
ext_cost_not_negated(P, row) == MinOfSeq(SubSeq(row, P + 1, 2 * P))

\* the cost of one query row: -min(ext_count_of_gen)
ext_cost_of(P, row) == -MinOfSeq(SubSeq(row, P + 1, 2 * P))

\* get_extension_cost_and_state giving the child its parent's top
get_extension_cost_and_state_keeping_top(P, ns, st, rs) ==
    [i \in 1 .. Len(rs) |->
        LET bot_of_gen == SubSeq(rs[i], 1, P)
        IN  <<ext_cost_of(P, rs[i]), SearchState(st, ns[st].top, bot_of_gen)>>]

\* get_extension_cost_and_state giving the child the whole query row as mid
get_extension_cost_and_state_whole_row(P, ns, st, rs) ==
    [i \in 1 .. Len(rs) |->
        <<ext_cost_of(P, rs[i]), SearchState(st, ns[st].mid, rs[i])>>]

\* Search.get_extension_cost_and_state over the rows the query returned for
\* the node `st`: one (cost, SearchState) per row, in the order of the rows
get_extension_cost_and_state(P, ns, st, rs) ==
    [i \in 1 .. Len(rs) |->
        LET bot_of_gen == SubSeq(rs[i], 1, P)
        IN  <<ext_cost_of(P, rs[i]), SearchState(st, ns[st].mid, bot_of_gen)>>]

\* the rows of the extension query for node `st`, as a set
extension_rows(P, tbl, ns, st) ==
    create_query_of_bot_rows_and_children_counts(
        P, tbl, get_query_params_from_rows(ns[st].top, ns[st].mid, P))

EMPTY_ROWS(P) == [i \in 1 .. P |-> 0]

EMPTY_STATE(P) == SearchState(NoParent, EMPTY_ROWS(P), EMPTY_ROWS(P))

RECURSIVE enqueue_all(_, _, _, _)
\* the for loop of the main loop: enqueue the nodes base+1, base+2, ... with
\* the costs of `exts`, in order
enqueue_all(ns, q, exts, base) ==
    IF exts = <<>> THEN q
    ELSE enqueue_all(ns, enqueue(ns, q, base + 1, Head(exts)[1]), Tail(exts), base + 1)

Tables == {t \in SUBSET Quads : Cardinality(t) <= MaxTableRows}

Init ==
    /\ period \in 1 .. MaxPeriod
    /\ table \in Tables
    /\ \E top \in [1 .. period -> Rows], mid \in [1 .. period -> Rows] :
          nodes = <<SearchState(NoParent, top, mid)>>
    /\ queue = enqueue(nodes, <<>>, 1, 0)
    /\ pc = "RUNNING"
    /\ state = 0
    /\ rows = <<>>
    /\ result = <<>>
    /\ printed = <<>>
    /\ queried = <<>>
    /\ dequeued = <<>>
    /\ bound = <<>>
    /\ shown = 0

\* One pass of the loop that dequeues the target: print the result and break.
StepFound ==
    /\ pc = "RUNNING"
    /\ ~is_empty(queue)
    /\ LET d == dequeue(nodes, queue)
       IN  /\ has_same_rows_as(nodes[d.state], EMPTY_STATE(period))
           /\ state' = d.state
           /\ queue' = d.queue
           /\ dequeued' = Append(dequeued, d.state)
           /\ result' = get_search_result(nodes, d.state)
           /\ shown' = 0
           /\ printed' = get_pattern_text_at(result', shown') \o <<"\n">>
           /\ pc' = "FOUND"
    /\ UNCHANGED <<table, period, nodes, rows, queried, bound>>

\* One pass of the loop that dequeues another state: query its extensions
\* and enqueue them all.
StepExpand ==
    /\ pc = "RUNNING"
    /\ ~is_empty(queue)
    /\ LET d == dequeue(nodes, queue)
       IN  /\ ~has_same_rows_as(nodes[d.state], EMPTY_STATE(period))
           /\ \E rs \in SetToSeqs(extension_rows(period, table, nodes, d.state)) :
                LET exts == get_extension_cost_and_state(period, nodes, d.state, rs)
                    ns2 == nodes \o [i \in 1 .. Len(exts) |-> exts[i][2]]
                IN  /\ Len(ns2) <= MaxNodes
                    /\ rows' = rs
                    /\ nodes' = ns2
                    /\ queue' = enqueue_all(ns2, d.queue, exts, Len(nodes))
           /\ bound' = get_query_params_from_rows(nodes[d.state].top,
                                                   nodes[d.state].mid, period)
           /\ state' = d.state
           /\ dequeued' = Append(dequeued, d.state)
           /\ queried' = Append(queried, d.state)
    /\ UNCHANGED <<table, period, pc, result, printed, shown>>

\* The loop condition finds the queue empty: the loop ends without a result.
Exhaust ==
    /\ pc = "RUNNING"
    /\ is_empty(queue)
    /\ pc' = "EXHAUSTED"
    /\ UNCHANGED <<table, period, nodes, queue, state, rows, result, printed,
                   queried, dequeued, bound, shown>>

Next == StepFound \/ StepExpand \/ Exhaust

Spec == Init /\ [][Next]_vars

----------------------------------------------------------------------------
\* The extension query on its own: any table, period and state (top, mid),
\* executed once.

InitQuery ==
    /\ period \in 1 .. MaxPeriod
    /\ table \in Tables
    /\ \E top \in [1 .. period -> Rows], mid \in [1 .. period -> Rows] :
          nodes = <<SearchState(NoParent, top, mid)>>
    /\ queue = <<>>
    /\ pc = "QUERY"
    /\ state = 1
    /\ rows = <<>>
    /\ result = <<>>
    /\ printed = <<>>
    /\ queried = <<>>
    /\ dequeued = <<>>
    /\ bound = <<>>
    /\ shown = 0

\* connection.execute(self.extension_query, params).all(); the order of the
\* rows is the database's choice.
ExecuteQuery ==
    /\ pc = "QUERY"
    /\ bound' = get_query_params_from_rows(nodes[state].top, nodes[state].mid, period)
    /\ rows' \in SetToSeqs(extension_rows(period, table, nodes, state))
    /\ queried' = Append(queried, state)
    /\ pc' = "QUERIED"
    /\ UNCHANGED <<table, period, nodes, queue, state, result, printed, dequeued,
                   shown>>

NextQuery == ExecuteQuery

SpecQuery == InitQuery /\ [][NextQuery]_vars

----------------------------------------------------------------------------
\* The packed query on its own: any table stored in the packed layout, any
\* period and state (top, mid) of 16-bit rows, executed once.

\* Pairs of 16-bit row values the packed tables and states are drawn from;
\* each pair has a row below 0x8000 and a row from 0x8000 up.
RowPairs == {{0, 65535}, {32767, 32768}}

\* the packed tables have one row less than the unpacked ones: two families
\* of them are explored
TablesOver(R) ==
    {t \in SUBSET (R \X R \X R \X R) : Cardinality(t) < MaxTableRows}

InitPacked ==
    /\ period \in 1 .. MaxPeriod
    /\ \E R \in RowPairs :
          /\ table \in TablesOver(R)
          /\ \E top \in [1 .. period -> R], mid \in [1 .. period -> R] :
                nodes = <<SearchState(NoParent, top, mid)>>
    /\ queue = <<>>
    /\ pc = "QUERY_PACKED"
    /\ state = 1
    /\ rows = <<>>
    /\ result = <<>>
    /\ printed = <<>>
    /\ queried = <<>>
    /\ dequeued = <<>>
    /\ bound = <<>>
    /\ shown = 0

\* params = get_query_params_from_rows(...); connection.execute(query,
\* params).all() over the packed table.  Binding a parameter outside the
\* signed 64-bit range raises OverflowError.
ExecutePacked ==
    /\ pc = "QUERY_PACKED"
    /\ bound' = get_query_params_from_rows_packed(nodes[state].top, nodes[state].mid,
                                                  period)
    /\ IF \A n \in DOMAIN bound' : fits_int64(bound'[n])
       THEN /\ rows' \in SetToSeqs(create_query_of_bot_rows_and_children_counts_packed(
                                       period, packed_table(table), bound'))
            /\ queried' = Append(queried, state)
            /\ pc' = "QUERIED_PACKED"
       ELSE /\ pc' = "OverflowError"
            /\ UNCHANGED <<rows, queried>>
    /\ UNCHANGED <<table, period, nodes, queue, state, result, printed, dequeued,
                   shown>>

NextPacked == ExecutePacked

SpecPacked == InitPacked /\ [][NextPacked]_vars

----------------------------------------------------------------------------
\* Construction of a state and the two parameter codecs on their own, on
\* any row tuples: of the period's length or not, of 16-bit rows or not.

\* 16-bit row values
Rows16 == {0, 1, 32767, 32768, 65535}
\* row values of which two do not fit 16 bits: 0x10001 and 0x18000
RowsWide == {1, 65537, 98304}

\* the row tuples a state is constructed from for period P
CodecTuples(P) ==
    [1 .. P -> Rows16] \cup [1 .. P -> RowsWide]
        \cup [1 .. (P - 1) -> Rows] \cup [1 .. (P + 1) -> Rows]

\* the transition table the encoded parameters are executed on
CodecTable == {<<1, 1, 1, 1>>}

InitCodec ==
    /\ period \in 1 .. MaxPeriod
    /\ table = CodecTable
    /\ nodes = <<>>
    /\ queue = <<>>
    /\ pc = "CODEC"
    /\ state = 0
    /\ rows = <<>>
    /\ result = <<>>
    /\ printed = <<>>
    /\ queried = <<>>
    /\ dequeued = <<>>
    /\ bound = <<>>
    /\ shown = 0

\* SearchState(parent=None, top=top, mid=mid): the dataclass constructor
\* stores its arguments as they are.
Construct(top, mid) ==
    /\ pc = "CODEC"
    /\ nodes = <<>>
    /\ nodes' = <<SearchState(NoParent, top, mid)>>
    /\ state' = 1
    /\ UNCHANGED <<table, period, queue, pc, rows, result, printed, queried,
                   dequeued, bound, shown>>

\* whether top_rows[i], mid_rows[i] and mid_rows[(i + 1) % period] exist for
\* every i in range(period)
rows_indexable(top_rows, mid_rows, P) == Len(top_rows) >= P /\ Len(mid_rows) >= P

\* query_alt.get_query_params_from_rows(state.top, state.mid, period=period);
\* indexing past the end of a tuple raises IndexError.
EncodeUnpacked ==
    /\ pc = "CODEC"
    /\ nodes # <<>>
    /\ IF rows_indexable(nodes[state].top, nodes[state].mid, period)
       THEN /\ bound' = get_query_params_from_rows(nodes[state].top, nodes[state].mid,
                                                   period)
            /\ pc' = "ENCODED"
       ELSE /\ pc' = "IndexError"
            /\ UNCHANGED bound
    /\ UNCHANGED <<table, period, nodes, queue, state, rows, result, printed,
                   queried, dequeued, shown>>

\* query.get_query_params_from_rows(state.top, state.mid, period=period)
EncodePacked ==
    /\ pc = "CODEC"
    /\ nodes # <<>>
    /\ IF rows_indexable(nodes[state].top, nodes[state].mid, period)
       THEN /\ bound' = get_query_params_from_rows_packed(nodes[state].top,
                                                          nodes[state].mid, period)
            /\ pc' = "ENCODED_PACKED"
       ELSE /\ pc' = "IndexError"
            /\ UNCHANGED bound
    /\ UNCHANGED <<table, period, nodes, queue, state, rows, result, printed,
                   queried, dequeued, shown>>

\* connection.execute(query, params).all() with the unpacked parameters
ExecuteEncoded ==
    /\ pc = "ENCODED"
    /\ rows' \in SetToSeqs(create_query_of_bot_rows_and_children_counts(
                               period, table, bound))
    /\ queried' = Append(queried, state)
    /\ pc' = "QUERIED"
    /\ UNCHANGED <<table, period, nodes, queue, state, result, printed, dequeued,
                   bound, shown>>

\* connection.execute(query, params).all() with the packed parameters;
\* binding a parameter outside the signed 64-bit range raises OverflowError.
ExecuteEncodedPacked ==
    /\ pc = "ENCODED_PACKED"
    /\ IF \A n \in DOMAIN bound : fits_int64(bound[n])
       THEN /\ rows' \in SetToSeqs(create_query_of_bot_rows_and_children_counts_packed(
                                       period, packed_table(table), bound))
            /\ queried' = Append(queried, state)
            /\ pc' = "QUERIED_PACKED"
       ELSE /\ pc' = "OverflowError"
            /\ UNCHANGED <<rows, queried>>
    /\ UNCHANGED <<table, period, nodes, queue, state, result, printed, dequeued,
                   bound, shown>>

\* the constructor called on any pair of tuples
ConstructAny ==
    /\ nodes = <<>>
    /\ \E top \in CodecTuples(period), mid \in CodecTuples(period) : Construct(top, mid)

NextCodec ==
    \/ ConstructAny
    \/ EncodeUnpacked
    \/ EncodePacked
    \/ ExecuteEncoded
    \/ ExecuteEncodedPacked

SpecCodec == InitCodec /\ [][NextCodec]_vars

----------------------------------------------------------------------------
\* The renderer on its own: any result of 16-bit rows, any generation.

\* the largest 16-bit row
MaxRow == 65535

\* rows of the results of more than one slice: only the lowest bit set, and
\* every other bit set from the highest down
RenderRows == {1, 43690}

\* the results rendered for period P: of up to MaxSlices slices of rows from
\* RenderRows and, for period 1, the one-slice result of every row
RenderResults(P) ==
    UNION {[1 .. n -> [1 .. P -> RenderRows]] : n \in 1 .. MaxSlices}
        \cup (IF P = 1 THEN {<<<<r>>>> : r \in 0 .. MaxRow} ELSE {})

InitRender ==
    /\ period \in 1 .. MaxPeriod
    /\ result \in RenderResults(period)
    /\ table = {}
    /\ nodes = <<>>
    /\ queue = <<>>
    /\ pc = "RENDER"
    /\ state = 0
    /\ rows = <<>>
    /\ printed = <<>>
    /\ queried = <<>>
    /\ dequeued = <<>>
    /\ bound = <<>>
    /\ shown = 0

\* result.get_pattern_text_at(gen=g)
Render(g) ==
    /\ pc = "RENDER"
    /\ shown' = g
    /\ printed' = get_pattern_text_at(result, g)
    /\ pc' = "RENDERED"
    /\ UNCHANGED <<table, period, nodes, queue, state, rows, result, queried,
                   dequeued, bound>>

NextRender == \E g \in Gens(period) : Render(g)

SpecRender == InitRender /\ [][NextRender]_vars

----------------------------------------------------------------------------
\* The frontier on its own: any sequence of enqueue and dequeue, with costs
\* from Costs and states from a pool in which two distinct states have equal
\* rows.

StatePool ==
    <<SearchState(NoParent, <<0>>, <<0>>),
      SearchState(NoParent, <<0>>, <<1>>),
      SearchState(1, <<0>>, <<1>>)>>

InitQueue ==
    /\ period = 1
    /\ table = {}
    /\ nodes = StatePool
    /\ queue = <<>>
    /\ pc = "QUEUE"
    /\ state = 0
    /\ rows = <<>>
    /\ result = <<>>
    /\ printed = <<>>
    /\ queried = <<>>
    /\ dequeued = <<>>
    /\ bound = <<>>
    /\ shown = 0

Enqueue(st, cost) ==
    /\ pc = "QUEUE"
    /\ Len(queue) < MaxQueue
    /\ queue' = enqueue(nodes, queue, st, cost)
    /\ UNCHANGED <<table, period, nodes, pc, state, rows, result, printed,
                   queried, dequeued, bound, shown>>

Dequeue ==
    /\ pc = "QUEUE"
    /\ ~is_empty(queue)
    /\ LET d == dequeue(nodes, queue)
       IN  state' = d.state /\ queue' = d.queue
    /\ UNCHANGED <<table, period, nodes, pc, rows, result, printed, queried,
                   dequeued, bound, shown>>

NextQueue ==
    \/ \E st \in 1 .. Len(nodes), cost \in Costs : Enqueue(st, cost)
    \/ Dequeue

SpecQueue == InitQueue /\ [][NextQueue]_vars

----------------------------------------------------------------------------
\* Vocabulary of the properties, stated on the table and the parent links
\* directly rather than through the operators above.

\* number of parent links from node n up to its root
RECURSIVE DepthOf(_, _)
DepthOf(ns, n) ==
    IF ns[n].parent = NoParent THEN 0 ELSE 1 + DepthOf(ns, ns[n].parent)

\* the node k parent links above n (n itself for k = 0)
RECURSIVE AncestorAt(_, _, _)
AncestorAt(ns, n, k) ==
    IF k = 0 THEN n ELSE AncestorAt(ns, ns[n].parent, k - 1)

\* number of table rows whose (top, mid, next) is (t, m, x)
MatchCount(tbl, t, m, x) ==
    Cardinality({r \in tbl : r[1] = t /\ r[2] = m /\ r[3] = x})

\* index of the generation after g (1-based g in 1..P)
After(P, g) == (g % P) + 1

\* the bot tuples that extend the state (top, mid) by one row
ValidBotTuples(tbl, P, top, mid) ==
    {b \in [1 .. P -> {r[4] : r \in tbl}] :
        \A g \in 1 .. P :
            /\ <<top[g], mid[g], mid[After(P, g)], b[g]>> \in tbl
            /\ MatchCount(tbl, mid[g], b[g], b[After(P, g)]) >= 1}

\* the smallest per-generation extension count of a state with rows (top, mid)
MinExtCount(tbl, P, top, mid) ==
    LET cs == {MatchCount(tbl, top[g], mid[g], mid[After(P, g)]) : g \in 1 .. P}
    IN  CHOOSE m \in cs : \A c \in cs : m <= c

IsTarget(n) == \A g \in 1 .. period : nodes[n].top[g] = 0 /\ nodes[n].mid[g] = 0

Dequeuing == dequeued' # dequeued

ClearLine == [i \in 1 .. 16 |-> "."] \o <<"\n">>

----------------------------------------------------------------------------
\* C1: a driver step enters FOUND exactly when the state it dequeued has the
\* target's (top, mid) rows, whatever its parent and also when it is the
\* root; the result is then that state's search result, no query is issued
\* for it and nothing is enqueued; once FOUND, nothing is dequeued or
\* enqueued any more, and FOUND is entered by no other step.
C1_FoundIffTargetDequeued ==
    [][/\ Dequeuing =>
            /\ state' = dequeued'[Len(dequeued')]
            /\ (pc' = "FOUND") <=> IsTarget(state')
            /\ IsTarget(state') =>
                  /\ result' = get_search_result(nodes, state')
                  /\ queried' = queried
                  /\ nodes' = nodes
                  /\ rows' = rows
                  /\ Len(queue') = Len(queue) - 1
       /\ (pc = "FOUND") =>
            /\ pc' = "FOUND"
            /\ UNCHANGED <<queue, dequeued, queried, nodes, result>>
       /\ (pc # "FOUND" /\ pc' = "FOUND") => Dequeuing]_vars

\* FOUND was reached on a state that is not the root
C1_Witness ==
    /\ pc = "FOUND"
    /\ Len(dequeued) >= 2
    /\ nodes[state].parent # NoParent

\* C2: the query returns exactly the bot tuples b such that every generation
\* g has the table row (top[g], mid[g], mid[g+1 mod P], b[g]) and at least
\* one table row with (top, mid, next) = (mid[g], b[g], b[g+1 mod P]), the
\* wrap-around generation included; each once, none missing, no other; and
\* nothing when some generation's parameters match no table row.
C2_QueryReturnsExactlyValidExtensions ==
    (pc = "QUERIED") =>
        LET P == period
            top == nodes[state].top
            mid == nodes[state].mid
            valid == ValidBotTuples(table, P, top, mid)
        IN  /\ {SubSeq(rows[i], 1, P) : i \in 1 .. Len(rows)} = valid
            /\ Len(rows) = Cardinality(valid)
            /\ (\E g \in 1 .. P : MatchCount(table, top[g], mid[g], mid[After(P, g)]) = 0)
                  => rows = <<>>

\* a period-2 query that returned some but not all combinations of candidates
C2_Witness ==
    /\ pc = "QUERIED"
    /\ period = 2
    /\ Len(rows) >= 1
    /\ \E b \in [1 .. 2 -> Rows] :
          /\ \A g \in 1 .. 2 :
                <<nodes[state].top[g], nodes[state].mid[g],
                  nodes[state].mid[After(2, g)], b[g]>> \in table
          /\ MatchCount(table, nodes[state].mid[1], b[1], b[2]) >= 1
          /\ MatchCount(table, nodes[state].mid[2], b[2], b[1]) = 0

\* C3: every returned row holds P bot values followed by P counts, and
\* count g is the number of table rows with (top, mid, next) =
\* (mid[g], bot[g], bot[g+1 mod P]) for the queried mid and the row's own bot.
C3_ExtensionCountsAreLookaheadCounts ==
    (pc = "QUERIED") =>
        \A i \in 1 .. Len(rows) :
            /\ Len(rows[i]) = 2 * period
            /\ \A g \in 1 .. period :
                  rows[i][period + g] =
                      MatchCount(table, nodes[state].mid[g], rows[i][g],
                                 rows[i][After(period, g)])

\* a period-2 row whose two counts differ and whose bot values differ
C3_Witness ==
    /\ pc = "QUERIED"
    /\ period = 2
    /\ \E i \in 1 .. Len(rows) : rows[i][3] # rows[i][4] /\ rows[i][1] # rows[i][2]

\* the multiset of the entries of a queue
BagOfSeq(q) ==
    [e \in {q[i] : i \in DOMAIN q} |-> Cardinality({i \in DOMAIN q : q[i] = e})]

\* the smallest extension count of node n, from the table
MinExtOf(ns, n) == MinExtCount(table, period, ns[n].top, ns[n].mid)

\* C4: expanding a dequeued non-target state S enqueues exactly one child per
\* row the oracle returns for S, with parent S, top = S.mid, mid = the row's
\* bot tuple and cost = -min(extension counts); nothing else is enqueued,
\* only S leaves the frontier, and the driver stays RUNNING.
C4_ExpansionEnqueuesOneChildPerRow ==
    [][(Dequeuing /\ ~IsTarget(state')) =>
          LET s == state'
              valid == ValidBotTuples(table, period, nodes[s].top, nodes[s].mid)
              new == (Len(nodes) + 1) .. Len(nodes')
              old == CHOOSE i \in 1 .. Len(queue) : queue[i][2] = s
          IN  /\ pc' = "RUNNING"
              /\ SubSeq(nodes', 1, Len(nodes)) = nodes
              /\ Len(rows') = Cardinality(valid)
              /\ Cardinality(new) = Cardinality(valid)
              /\ {nodes'[n].mid : n \in new} = valid
              /\ \A n \in new : /\ nodes'[n].parent = s
                                /\ nodes'[n].top = nodes[s].mid
                                /\ nodes'[n].mid = SubSeq(rows'[n - Len(nodes)], 1, period)
              /\ BagOfSeq(queue') =
                    (BagOfSeq(queue) (-) SetToBag({queue[old]}))
                    (+) SetToBag({<<-MinExtOf(nodes', n), n>> : n \in new})]_vars

\* an expansion of a non-root state that enqueued two children of different cost
C4_Witness ==
    /\ pc = "RUNNING"
    /\ state # 0
    /\ nodes[state].parent # NoParent
    /\ \E i, j \in 1 .. Len(queue) :
          /\ nodes[queue[i][2]].parent = state
          /\ nodes[queue[j][2]].parent = state
          /\ queue[i][1] # queue[j][1]

\* C5: the frontier is a min-priority queue: an enqueue adds exactly its
\* entry; a dequeue on a non-empty frontier returns the state of an entry of
\* minimal cost, ties and equal-row states included, and leaves the other
\* entries; costs 3, -5, 0 enqueued in this order come out as -5, 0, 3.
C5_FrontierIsMinPriorityQueue ==
    [][/\ Len(queue') < Len(queue) =>
            \E i \in 1 .. Len(queue) :
                /\ queue[i][2] = state'
                /\ \A j \in 1 .. Len(queue) : queue[i][1] <= queue[j][1]
                /\ BagOfSeq(queue') = BagOfSeq(queue) (-) SetToBag({queue[i]})
       /\ Len(queue') > Len(queue) =>
            \E st \in 1 .. Len(nodes), cost \in Costs :
                BagOfSeq(queue') = BagOfSeq(queue) (+) SetToBag({<<cost, st>>})
       /\ (queue = <<>>) => \A a, b, c \in 1 .. Len(nodes) :
            LET q == enqueue(nodes, enqueue(nodes, enqueue(nodes, <<>>, a, 3), b, -5), c, 0)
                d1 == heappop(nodes, q)
                d2 == heappop(nodes, d1.heap)
                d3 == heappop(nodes, d2.heap)
            IN  /\ <<d1.item, d2.item, d3.item>> = <<<<-5, b>>, <<0, c>>, <<3, a>>>>
                /\ d3.heap = <<>>]_vars

\* a dequeue has happened and the frontier holds, among at least four
\* entries, two of equal cost whose distinct states have equal rows
C5_Witness ==
    /\ pc = "QUEUE"
    /\ state # 0
    /\ Len(queue) >= 4
    /\ \E i, j \in 1 .. Len(queue) :
          /\ queue[i][1] = queue[j][1]
          /\ queue[i][2] # queue[j][2]
          /\ nodes[queue[i][2]].top = nodes[queue[j][2]].top
          /\ nodes[queue[i][2]].mid = nodes[queue[j][2]].mid

\* C6 as stated: a child is never dequeued while another child whose minimum
\* extension count is strictly smaller is still in the frontier.
C6_SmallerMinCountDequeuedFirst ==
    [][Dequeuing =>
          \A i \in 1 .. Len(queue) :
              LET n == queue[i][2]
              IN  (n # state' /\ nodes[n].parent # NoParent
                              /\ nodes[state'].parent # NoParent)
                      => ~(MinExtOf(nodes, n) < MinExtOf(nodes, state'))]_vars

\* C6, amended: the order is the opposite one. A child is never dequeued
\* while another child whose minimum extension count is strictly larger is
\* still in the frontier: of two children in the frontier together, the one
\* with the larger minimum extension count leaves first.
C6_LargerMinCountDequeuedFirst ==
    [][Dequeuing =>
          \A i \in 1 .. Len(queue) :
              LET n == queue[i][2]
              IN  (n # state' /\ nodes[n].parent # NoParent
                              /\ nodes[state'].parent # NoParent)
                      => ~(MinExtOf(nodes, n) > MinExtOf(nodes, state'))]_vars

\* a child was dequeued while a sibling or cousin already in the frontier,
\* with a strictly smaller minimum extension count, stayed behind
C6_Witness ==
    /\ state # 0
    /\ nodes[state].parent # NoParent
    /\ \E i \in 1 .. Len(queue) :
          /\ nodes[queue[i][2]].parent # state
          /\ nodes[queue[i][2]].parent # NoParent
          /\ MinExtOf(nodes, queue[i][2]) < MinExtOf(nodes, state)

\* the fixture of C7: one table row, period 1, seed top = (0,), mid = (1,)
C7_Fixture ==
    /\ table = {<<0, 1, 0, 0>>}
    /\ period = 1
    /\ nodes[1] = SearchState(NoParent, <<0>>, <<1>>)

\* C7 as stated: on the fixture the run ends in FOUND after exactly one
\* expansion and prints two lines of 16 clear cells.
C7_FixtureEndsFound ==
    (C7_Fixture /\ pc # "RUNNING") =>
        /\ pc = "FOUND"
        /\ Len(queried) = 1
        /\ printed = ClearLine \o ClearLine \o <<"\n">>

\* C7, amended: on the fixture the driver never reaches FOUND and renders
\* nothing. The root's parameters are (top, mid, next) = (0, 1, 1), no table
\* row, so its expansion, the only one, returns no row and creates no child,
\* and the run ends EXHAUSTED without a result.
C7_FixtureEndsExhausted ==
    C7_Fixture =>
        /\ pc # "FOUND"
        /\ result = <<>>
        /\ printed = <<>>
        /\ Len(nodes) = 1
        /\ rows = <<>>
        /\ (dequeued # <<>>) => (dequeued = <<1>> /\ queried = <<1>> /\ queue = <<>>)
        /\ (pc = "EXHAUSTED") => queried = <<1>>

C7_Witness == C7_Fixture /\ pc = "EXHAUSTED" /\ queried = <<1>>

\* C8 as stated: with an empty table, whatever the seed, the root has no
\* children, the run has no result and FOUND is never reached.
C8_EmptyTableNeverFound ==
    (table = {}) => (pc # "FOUND" /\ result = <<>> /\ Len(nodes) = 1)

\* C8, amended: with an empty table and a seed other than the target, the
\* root is dequeued and queried once, has no children, and the emptiness
\* test that follows ends the run EXHAUSTED with no result; FOUND is never
\* reached.  With the seed equal to the target the first step is FOUND.
C8_EmptyTableExhaustsUnlessSeedIsTarget ==
    (table = {}) =>
        /\ Len(nodes) = 1
        /\ ~IsTarget(1) =>
              /\ pc # "FOUND"
              /\ result = <<>>
              /\ printed = <<>>
              /\ (dequeued # <<>>) =>
                    (dequeued = <<1>> /\ queried = <<1>> /\ rows = <<>> /\ queue = <<>>)
              /\ (pc = "EXHAUSTED") => dequeued = <<1>>
        /\ IsTarget(1) =>
              /\ pc # "EXHAUSTED"
              /\ queried = <<>>
              /\ (dequeued # <<>>) => pc = "FOUND"

C8_Witness ==
    /\ table = {}
    /\ period = 2
    /\ ~IsTarget(1)
    /\ pc = "EXHAUSTED"
    /\ dequeued = <<1>>

\* C9 as stated: the search result of a state with D ancestors has 1 + D
\* slices: its mid, then the top of each of the D ancestors, leaf to root.
C9_ResultHasOnePlusDepthSlices ==
    (pc = "FOUND") =>
        LET D == DepthOf(nodes, state)
        IN  /\ Len(result) = 1 + D
            /\ result[1] = nodes[state].mid
            /\ \A k \in 1 .. D : result[1 + k] = nodes[AncestorAt(nodes, state, k)].top

\* C9, amended: the search result of a state with D ancestors has 2 + D
\* slices: its mid, then its own top, then the top of each of the D
\* ancestors, leaf to root; the FOUND branch stores exactly this.
C9_ResultHasTwoPlusDepthSlices ==
    /\ \A n \in 1 .. Len(nodes) :
          LET r == get_search_result(nodes, n)
              D == DepthOf(nodes, n)
          IN  /\ Len(r) = 2 + D
              /\ r[1] = nodes[n].mid
              /\ \A k \in 0 .. D : r[2 + k] = nodes[AncestorAt(nodes, n, k)].top
    /\ (pc = "FOUND") =>
          /\ Len(result) = 2 + DepthOf(nodes, state)
          /\ result[1] = nodes[state].mid
          /\ \A k \in 0 .. DepthOf(nodes, state) :
                result[2 + k] = nodes[AncestorAt(nodes, state, k)].top

\* a result was built for a state with two ancestors
C9_Witness ==
    /\ pc = "FOUND"
    /\ DepthOf(nodes, state) = 2
    /\ Len(result) = 4

\* C10: get_ancestors of a root is exactly [root]; of a state at depth D it
\* is D + 1 states, leaf first: the state itself, then each one's parent, the
\* root last.
C10_AncestorsLeafFirst ==
    \A n \in 1 .. Len(nodes) :
        LET a == get_ancestors(nodes, n)
        IN  /\ Len(a) = DepthOf(nodes, n) + 1
            /\ a[1] = n
            /\ \A i \in 1 .. (Len(a) - 1) : a[i + 1] = nodes[a[i]].parent
            /\ nodes[a[Len(a)]].parent = NoParent
            /\ (nodes[n].parent = NoParent) => a = <<n>>

\* some state has two ancestors
C10_Witness ==
    \E n \in 1 .. Len(nodes) :
        /\ DepthOf(nodes, n) = 2
        /\ Len(get_ancestors(nodes, n)) = 3

----------------------------------------------------------------------------
\* C11: for every table of 16-bit transitions stored once in the packed
\* layout and once in the unpacked layout, every period and every state, the
\* packed parameters and query return exactly the rows the unpacked
\* parameters and query return, each once; no parameter fails to bind.
C11_PackedEqualsUnpacked ==
    /\ pc # "OverflowError"
    /\ (pc = "QUERIED_PACKED") =>
          /\ {rows[i] : i \in 1 .. Len(rows)} =
                create_query_of_bot_rows_and_children_counts(
                    period, table,
                    get_query_params_from_rows(nodes[state].top, nodes[state].mid, period))
          /\ \A i, j \in 1 .. Len(rows) : rows[i] = rows[j] => i = j

\* the packed query returned rows for a state of period 2 whose key for
\* generation 0 is negative
C11_Witness ==
    /\ pc = "QUERIED_PACKED"
    /\ period = 2
    /\ rows # <<>>
    /\ nodes[state].top[1] >= 32768
    /\ bound[<<0, "main">>].neg

\* the tuples of the constructed state have the period's length
WellFormed == nodes # <<>> /\ Len(nodes[1].top) = period /\ Len(nodes[1].mid) = period

\* the rows of the constructed state are 16-bit rows
InRange ==
    /\ \A i \in 1 .. Len(nodes[1].top) : nodes[1].top[i] \in 0 .. 65535
    /\ \A i \in 1 .. Len(nodes[1].mid) : nodes[1].mid[i] \in 0 .. 65535

\* x + y = 2^64, for digit sequences of at most four digits
RECURSIVE CarriesTo(_, _, _, _)
CarriesTo(x, y, i, carry) ==
    IF i > 4 THEN carry = 1
    ELSE LET v == DigitAt(x, i) + DigitAt(y, i) + carry
         IN  v % Base = 0 /\ CarriesTo(x, y, i + 1, v \div Base)

\* the signed integer k is the unsigned 64-bit value with the digits u, less
\* 2^64 when that value is 2^63 or more
IsRebased(k, u) ==
    IF u[4] >= 32768
    THEN k.neg /\ Len(k.mag) <= 4 /\ CarriesTo(k.mag, u, 1, 0)
    ELSE ~k.neg /\ \A i \in 1 .. 4 : DigitAt(k.mag, i) = u[i]

\* k lies in -2^63 .. 2^63 - 1
InSigned64(k) ==
    /\ Len(k.mag) <= 4
    /\ \/ DigitAt(k.mag, 4) < 32768
       \/ k.neg /\ k.mag = <<0, 0, 0, 32768>>

----------------------------------------------------------------------------
\* C12: for tuples of 16-bit rows of the period's length, the packed key of
\* generation g is (top[g] << 48) | (mid[g] << 32) | (mid[(g+1) mod P] << 16)
\* less 2^64 when that is 2^63 or more; it lies in the signed 64-bit range,
\* its low 16 bits are zero, and bits 63..48, 47..32 and 31..16 of the stored
\* integer decode to top[g], mid[g] and mid[(g+1) mod P].
C12_PackedKeyRoundTrip ==
    (pc = "ENCODED_PACKED" /\ WellFormed /\ InRange) =>
        \A g \in 1 .. period :
            LET k == bound[<<g - 1, "main">>]
                top == nodes[1].top[g]
                mid == nodes[1].mid[g]
                next == nodes[1].mid[After(period, g)]
                id == sqlite_bind(k)
                field(s) == sql_fetch(sql_and(sql_rshift(id, s), sql_int(65535)))
            IN  /\ IsRebased(k, <<0, next, mid, top>>)
                /\ InSigned64(k)
                /\ DigitAt(k.mag, 1) = 0
                /\ id[1] = 0
                /\ field(48) = top
                /\ field(32) = mid
                /\ field(16) = next

\* keys were built for period 2 from distinct rows, one key negative and
\* one positive
C12_Witness ==
    /\ pc = "ENCODED_PACKED"
    /\ WellFormed
    /\ InRange
    /\ period = 2
    /\ bound[<<0, "main">>].neg
    /\ ~bound[<<1, "main">>].neg
    /\ nodes[1].mid[1] # nodes[1].mid[2]
    /\ nodes[1].top[2] > 0

----------------------------------------------------------------------------
\* C13: a state whose top or mid does not have the period's length is
\* rejected when it is constructed: no such state exists, the only error
\* raised is InvalidArgument, no parameters are encoded from a truncated or
\* padded tuple and no query is executed for it.
C13_MalformedSeedRejected ==
    /\ (nodes # <<>>) => WellFormed
    /\ pc # "IndexError"
    /\ (bound # <<>>) => WellFormed
    /\ (queried # <<>>) => WellFormed

----------------------------------------------------------------------------
\* C14: a row outside 0..65535 is rejected before any packing: the packed
\* encoder produces no key from a state with such a row, so no key is bound
\* or executed for it.
C14_OutOfRangeRowRejected ==
    (WellFormed /\ ~InRange) =>
        pc \notin {"ENCODED_PACKED", "QUERIED_PACKED", "OverflowError"}

\* 2^b
RECURSIVE TwoTo(_)
TwoTo(b) == IF b = 0 THEN 1 ELSE 2 * TwoTo(b - 1)

\* bit b of the row n
BitOf(n, b) == (n \div TwoTo(b)) % 2

----------------------------------------------------------------------------
\* C15: the text of generation g of a result of 16-bit rows has one line per
\* slice, in slice order; each line is 16 characters and a line feed, and
\* character i (0 the leftmost) is "o" if bit 15 - i of the slice's row of
\* generation g is 1 and "." otherwise.
C15_RenderedTextIsMsbFirst ==
    (pc = "RENDERED") =>
        /\ Len(printed) = 17 * Len(result)
        /\ \A k \in 1 .. Len(result) :
              /\ printed[17 * k] = "\n"
              /\ \A i \in 0 .. 15 :
                    printed[17 * (k - 1) + i + 1] =
                        IF BitOf(result[k][shown + 1], 15 - i) = 1 THEN "o" ELSE "."

\* generation 1 of a result of three slices was rendered, the slices
\* differing in that generation
C15_Witness ==
    /\ pc = "RENDERED"
    /\ period = 2
    /\ shown = 1
    /\ Len(result) = 3
    /\ result[1][2] = 43690
    /\ result[2][2] = 1
    /\ result[3][1] # result[3][2]

----------------------------------------------------------------------------
\* C16: the driver enters EXHAUSTED exactly by a step that finds the frontier
\* empty while RUNNING (so not after FOUND), and a RUNNING driver with an
\* empty frontier can do nothing else; that step changes nothing but the
\* position, so there is no result and no output; EXHAUSTED is terminal; the
\* driver is never anywhere but RUNNING, FOUND or EXHAUSTED (no error); and
\* every dequeue takes an entry from a non-empty frontier.
C16_ExhaustedIffFrontierFoundEmpty ==
    [][/\ (pc' = "EXHAUSTED") =>
            /\ pc = "RUNNING"
            /\ queue = <<>>
            /\ result' = <<>>
            /\ printed' = <<>>
            /\ UNCHANGED <<table, period, nodes, queue, state, rows, result,
                           printed, queried, dequeued>>
       /\ (pc = "RUNNING" /\ queue = <<>>) => pc' = "EXHAUSTED"
       /\ pc # "EXHAUSTED"
       /\ pc' \in {"RUNNING", "FOUND", "EXHAUSTED"}
       /\ Dequeuing =>
            /\ queue # <<>>
            /\ Len(queue) >= 1
            /\ \E i \in 1 .. Len(queue) : queue[i][2] = state'
            /\ dequeued' = Append(dequeued, state')]_vars

\* EXHAUSTED was reached after at least two states had been expanded
C16_Witness ==
    /\ pc = "EXHAUSTED"
    /\ Len(queried) >= 2
    /\ Len(dequeued) = Len(nodes)

----------------------------------------------------------------------------
\* C17: in every driver state every constructed state (so every one in the
\* frontier or on an ancestor chain) has top and mid of the period's length,
\* the seed is the only root, and every other state's top is its parent's
\* mid; hence the slices of the result, last to first, are the root's top,
\* the root's mid, then the mid of each descendant down to the dequeued
\* state.
C17_ChainInvariant ==
    /\ \A n \in 1 .. Len(nodes) :
          /\ Len(nodes[n].top) = period
          /\ Len(nodes[n].mid) = period
          /\ (nodes[n].parent = NoParent) <=> (n = 1)
          /\ (n # 1) =>
                /\ nodes[n].parent \in 1 .. (n - 1)
                /\ nodes[n].top = nodes[nodes[n].parent].mid
    /\ \A i \in 1 .. Len(queue) : queue[i][2] \in 1 .. Len(nodes)
    /\ (pc = "FOUND") =>
          LET D == DepthOf(nodes, state)
              L == Len(result)
          IN  /\ L = D + 2
              /\ result[L] = nodes[1].top
              /\ AncestorAt(nodes, state, D) = 1
              /\ \A d \in 0 .. D :
                    result[L - 1 - d] = nodes[AncestorAt(nodes, state, D - d)].mid

\* FOUND on a state two links below the root, for period 2, the root's top
\* and mid differing
C17_Witness ==
    /\ pc = "FOUND"
    /\ period = 2
    /\ DepthOf(nodes, state) = 2
    /\ nodes[1].top # nodes[1].mid
    /\ Len(result) = 4

----------------------------------------------------------------------------
\* C18: every row the query returned has only positive counts, so every
\* child in the frontier has a cost of -1 or less; the root, enqueued at
\* cost 0, is the only entry whose cost is not negative, and once a state
\* has been dequeued every entry of the frontier has a negative cost.
C18_ChildCostsNegative ==
    /\ \A i \in 1 .. Len(rows) :
          \A c \in (period + 1) .. (2 * period) : rows[i][c] > 0
    /\ \A i \in 1 .. Len(queue) :
          IF queue[i][2] = 1 THEN queue[i][1] = 0 ELSE queue[i][1] <= -1
    /\ (dequeued # <<>>) => \A i \in 1 .. Len(queue) : queue[i][1] < 0

\* the root has been dequeued and the frontier holds children of costs -1
\* and -2
C18_Witness ==
    /\ dequeued # <<>>
    /\ \E i, j \in 1 .. Len(queue) : queue[i][1] = -1 /\ queue[j][1] = -2

\* a table of two transitions, period 1 and the seed (1, 0): the state
\* (1, 0) extends to (0, 1) only and (0, 1) to (1, 0) only
C19_Fixture ==
    /\ period = 1
    /\ table = {<<1, 0, 0, 1>>, <<0, 1, 1, 0>>}
    /\ nodes[1].top = <<1>>
    /\ nodes[1].mid = <<0>>

----------------------------------------------------------------------------
\* C19: there is a finite table, period and seed on which the driver never
\* leaves RUNNING.  On the fixture every reachable state is RUNNING with a
\* frontier of exactly one state, the one constructed last; that state is
\* not the target and its extension query returns a row, so the next pass
\* of the loop dequeues it, expands it and enqueues a state again; the
\* state enqueued has the (top, mid) of the one expanded two passes earlier,
\* which is neither recognised nor dropped.
C19_FixtureNeverTerminates ==
    C19_Fixture =>
        /\ pc = "RUNNING"
        /\ result = <<>>
        /\ Len(queue) = 1
        /\ queue[1][2] = Len(nodes)
        /\ Len(dequeued) = Len(nodes) - 1
        /\ ~IsTarget(queue[1][2])
        /\ extension_rows(period, table, nodes, queue[1][2]) # {}
        /\ \A n \in 3 .. Len(nodes) :
              nodes[n].top = nodes[n - 2].top /\ nodes[n].mid = nodes[n - 2].mid

\* on the fixture a state with the rows of an expanded state was expanded
\* again, twice, and a third one with those rows is in the frontier
C19_Witness ==
    /\ C19_Fixture
    /\ Len(queried) >= 5
    /\ has_same_rows_as(nodes[queried[1]], nodes[queried[3]])
    /\ has_same_rows_as(nodes[queried[3]], nodes[queried[5]])
    /\ queried[1] # queried[3]
    /\ has_same_rows_as(nodes[queue[1][2]], nodes[queried[5]])
====
